---- MODULE Spec2Model ----
(***************************************************************************)
(* A state-machine model of spotify_playlist_to_liked.py: the retrying     *)
(* wrapper rate_limited_request, the playlist loader                       *)
(* get_playlist_info_and_tracks with its caller in main, the per-track     *)
(* loop of process_songs and the exporter create_playlist_from_liked.      *)
(*                                                                         *)
(* Times are in hundredths of a second (0.35 s is 35).  A uri is a small   *)
(* natural number (1, 2, 3 stand for the tracks A, B, C); 0 stands for an  *)
(* item that carries no uri.  The program is sequential: pc is the place   *)
(* the single thread has reached.                                          *)
(***************************************************************************)
EXTENDS Integers, Sequences, FiniteSets, TLC

\* ------------------------------------------------------------------ bounds

\* Longest track list handed to process_songs.
MaxTracks == 3

\* ------------------------------------------------- constants of the program

SAFE_THRESHOLD == 1000
\* The batch size of the upload, and the page size asked for without a limit.
BATCH == 100
DEFAULT_PAGE == 50
\* The default answer to "How many recent liked songs?".
DEFAULT_LIMIT == 100
SLOW_THRESHOLD_DELAY == 120
MIN_DELAY_BASE == 35
MAX_RETRIES == 5
SPEED_MODES == [fast |-> 35, balanced |-> 60, accurate |-> 150]

\* The HTTP status the wrapper treats as "rate limited".
RATE_LIMITED == 429
\* The wait used when a rate-limited answer carries no Retry-After hint.
DEFAULT_RETRY_AFTER == 5

VARIABLES
    pc,               \* where the program is
    outcome,          \* the last message that ends or aborts an operation
    \* ---- process_songs
    mode,             \* "add" or "remove"
    tracks,           \* the list of uris handed to process_songs
    total,            \* len(tracks)
    speed_choice,     \* what the speed prompt returned, "" before it
    effective_delay,  \* the per-item delay, -1 while None
    i,                \* the loop's enumerate index (1-based), 0 before the loop
    uri,              \* the uri of the track being handled
    is_liked,         \* the answer of the membership check
    skipped,
    processed,
    \* ---- rate_limited_request (one frame: calls never nest)
    func,             \* the wrapped operation
    arg,              \* its argument
    retries,
    result,           \* what the wrapper returned: [none, val]
    raised,           \* an exception left the wrapper
    ret,              \* where the caller continues
    \* ---- get_playlist_info_and_tracks
    playlist_info,    \* "empty" for {}, "loaded" once the metadata arrived
    \* ---- create_playlist_from_liked
    limit_str,        \* the answer to "How many recent liked songs?"
    limit,            \* [none, n]: None, or the integer the user entered
    liked,            \* the uris collected from Liked Songs
    playlist,         \* what the create-playlist request returned: [none, val]
    offset,           \* the i of range(0, len(liked), 100)
    \* ---- the remote service
    library,          \* the set of uris in Liked Songs
    pages,            \* the pages of the listing being read, each a list of
                      \* items: a uri, or 0 for an item without track or uri
    created,          \* playlists created
    uploaded,         \* the uris added to the created playlist, in order
    \* ---- what an observer of the run sees
    library0,         \* Liked Songs when the operation started
    served,           \* page requests that succeeded
    batches,          \* the batches handed to add-items, in order
    speed_input,      \* what the user typed at the speed prompt
    faulted,          \* some remote call has failed
    found,            \* the answers of the successful membership checks
    asked,            \* the speed prompt was shown
    confirmed,        \* the user answered yes to the confirmation
    errors,           \* "Error on ..." lines printed by process_songs
    progress,         \* progress.update(task, advance=1) calls
    paces,            \* pacing sleeps executed
    visited,          \* input positions of the tracks visited, in visit order
    calls,            \* calls of the wrapped operation in this invocation
    invoked,          \* invocations of rate_limited_request in this operation
    lastFailure,      \* the last API error of this invocation: [status, hint]
    lastSleep,        \* the last time.sleep: [kind, secs]
    prev,             \* the previous remote call: [func, arg, ok]
    checked,          \* the last successful membership check: [at, uri, liked]
    mutations,        \* mutating calls the remote service applied: [func, arg]
    \* ---- the process and its files
    interrupted,      \* a KeyboardInterrupt was delivered to the process
    env_file,         \* .env: "saved" or "absent"
    token_cache,      \* .cache-spotify: "saved" or "absent"
    env_values,       \* the keys of .env: [id, secret], each [none, val]
    \* ---- change_credentials and clear_cache
    new_id,           \* what the Client ID prompt returned, <<>> before it
    new_secret,       \* what the Client Secret prompt returned
    sure,             \* the answer to "Are you sure?": "unasked", "yes", "no"
    files0            \* the files when the operation started

psVars == <<mode, tracks, total, speed_choice, effective_delay, i, uri, is_liked, skipped, processed>>
rlVars == <<func, arg, retries, result, raised, ret>>
gpVars == <<playlist_info>>
exVars == <<limit_str, limit, liked, playlist, offset>>
remoteVars == <<library, pages, created, uploaded>>
obsVars == <<library0, served, batches, speed_input, faulted, found, asked, confirmed, errors, progress, paces, visited, calls, invoked, lastFailure,
             lastSleep, prev, checked, mutations>>
\* psVars without tracks and mode; obsVars without calls.
psLocals == <<total, speed_choice, effective_delay, i, uri, is_liked, skipped, processed>>
runObs == <<library0, served, batches, speed_input, faulted, found, asked, confirmed,
            errors, progress, paces, visited, lastSleep, prev, checked, mutations>>
credVars == <<env_values, new_id, new_secret, sure, files0>>
sysVars == <<interrupted, env_file, token_cache, credVars>>
vars == <<pc, outcome, psVars, rlVars, gpVars, exVars, remoteVars, obsVars, sysVars>>

\* ------------------------------------------------------------------ helpers

Uris == 1..MaxTracks

None == [none |-> TRUE, val |-> <<>>]
Value(v) == [none |-> FALSE, val |-> v]

NoSleep == [kind |-> "none", secs |-> 0]
NoCall == [func |-> "none", arg |-> 0, ok |-> FALSE]
NoCheck == [at |-> 0, uri |-> 0, liked |-> FALSE]
NoLimit == [none |-> TRUE, n |-> 0]
NoFailure == [status |-> 0, hint |-> -1]
\* .env without a key, or no .env.
NoValues == [id |-> None, secret |-> None]

RECURSIVE Reverse(_)
Reverse(s) == IF s = <<>> THEN <<>> ELSE Append(Reverse(Tail(s)), Head(s))

\* The positions of a list, 1 .. len.
Positions(s) == [k \in 1..Len(s) |-> k]

\* The list walked front to back.
VisitOrder_Forward(tr) == tr

\* tracks[::-1]: the order in which the loop visits the list.
VisitOrder(tr) == Reverse(tr)

\* random.uniform(0, hi): the two ends of the interval stand for the draw.
Uniform(hi) == {0, hi}

\* ------------------------------------------------ rate_limited_request

MUTATING == {"add", "delete"}

\* What one call of the wrapped operation can do: succeed, fail with a
\* SpotifyException (status 429 with or without a Retry-After header, or any
\* other status), or raise something that is no SpotifyException.
\* hint = -1: no headers, or no Retry-After among them.
Hints == {-1, 3}
Outcomes ==
    [kind : {"ok"}, status : {200}, hint : {-1}, jit : Uniform(15)]
    \cup [kind : {"api"}, status : {RATE_LIMITED}, hint : Hints, jit : Uniform(200)]
    \cup [kind : {"api"}, status : {500}, hint : {-1}, jit : {0}]
    \cup [kind : {"exc"}, status : {0}, hint : {-1}, jit : {0}]

\* int(e.headers.get('Retry-After', 5)) if e.headers else 5
RetryAfter(hint) == IF hint = -1 THEN DEFAULT_RETRY_AFTER ELSE hint

\* The wait after an error doubled with every failure.
BackoffSleep_Doubling(o, r) ==
    IF o.status = RATE_LIMITED
    THEN [kind |-> "rate", secs |-> 100 * RetryAfter(o.hint) + o.jit]
    ELSE [kind |-> "error", secs |-> 200 * (2 ^ r)]

\* The sleep after a failed attempt, lines 165-174.
BackoffSleep(o, r) ==
    IF o.status = RATE_LIMITED
    THEN [kind |-> "rate", secs |-> 100 * RetryAfter(o.hint) + o.jit]
    ELSE [kind |-> "error", secs |-> 200 + r * 200]

\* Twice the retries.
MayAttempt_Twice(r) == r < 2 * MAX_RETRIES

\* One turn too many.
MayAttempt_OneMore(r) == r <= MAX_RETRIES

\* while retries < MAX_RETRIES
MayAttempt(r) == r < MAX_RETRIES

\* Page k of the listing: its items and the cursor of the page after it
\* (0 for no "next").
PageAt(k) == [items |-> pages[k], next |-> IF k < Len(pages) THEN k + 1 ELSE 0]

PAGE_REQUESTS == {"playlist_items", "saved_tracks", "next"}

\* The answer of the remote service to a successful call.
RemoteAnswer(f, a) ==
    CASE f = "contains" -> Value(<<a \in library>>)
      [] f \in {"playlist_items", "saved_tracks"} -> Value(PageAt(1))
      [] f = "next" -> Value(PageAt(a))
      [] f = "create" -> Value(created + 1)
      [] OTHER -> Value(<<>>)

\* The effect of a successful call on Liked Songs.
RemoteLibrary(f, a) ==
    CASE f = "add" -> library \cup {a}
      [] f = "delete" -> library \ {a}
      [] OTHER -> library

\* The effect of a successful call on the playlists.
RemoteCreated(f) == IF f = "create" THEN created + 1 ELSE created
RemoteUploaded(f, a) == IF f = "add_items" THEN uploaded \o a ELSE uploaded

\* rate_limited_request is entered: retries = 0.
Call(f, a, r) ==
    /\ func' = f
    /\ arg' = a
    /\ retries' = 0
    /\ result' = None
    /\ raised' = FALSE
    /\ ret' = r
    /\ calls' = 0
    /\ invoked' = invoked + 1
    /\ lastFailure' = NoFailure
    /\ pc' = "rlr"

\* One turn of the while loop: the wrapped operation is called once.
Attempt(o) ==
    /\ pc = "rlr"
    /\ MayAttempt(retries)
    /\ calls' = calls + 1
    /\ prev' = [func |-> func, arg |-> arg, ok |-> o.kind = "ok"]
    /\ faulted' = (faulted \/ o.kind # "ok")
    /\ CASE o.kind = "ok" ->
              /\ result' = RemoteAnswer(func, arg)
              /\ library' = RemoteLibrary(func, arg)
              /\ created' = RemoteCreated(func)
              /\ uploaded' = RemoteUploaded(func, arg)
              /\ served' = IF func \in PAGE_REQUESTS THEN served + 1 ELSE served
              /\ checked' = IF func = "contains"
                            THEN [at |-> i, uri |-> arg, liked |-> arg \in library]
                            ELSE checked
              /\ found' = IF func = "contains" THEN Append(found, arg \in library)
                          ELSE found
              /\ mutations' = IF func \in MUTATING
                              THEN Append(mutations, [func |-> func, arg |-> arg])
                              ELSE mutations
              /\ lastSleep' = [kind |-> "ok", secs |-> MIN_DELAY_BASE + o.jit]
              /\ lastFailure' = NoFailure
              /\ pc' = ret
              /\ UNCHANGED <<retries, raised>>
         [] o.kind = "api" ->
              /\ lastSleep' = BackoffSleep(o, retries)
              /\ lastFailure' = [status |-> o.status, hint |-> o.hint]
              /\ retries' = retries + 1
              /\ UNCHANGED <<pc, result, raised, library, created, uploaded, served,
                             checked, found, mutations>>
         [] OTHER ->
              /\ raised' = TRUE
              /\ lastFailure' = NoFailure
              /\ pc' = ret
              /\ UNCHANGED <<retries, result, library, created, uploaded, served,
                             checked, found, mutations, lastSleep>>
    /\ UNCHANGED <<sysVars, outcome, psVars, gpVars, exVars, func, arg, ret, pages,
                   library0, batches, speed_input, asked, confirmed, errors,
                   progress, paces, visited, invoked>>

RLR_Attempt == \E o \in Outcomes : Attempt(o)

\* The loop ends without a success: "Max retries reached", return None.
RLR_Exhaust ==
    /\ pc = "rlr"
    /\ ~MayAttempt(retries)
    /\ result' = None
    /\ pc' = ret
    /\ UNCHANGED <<sysVars, outcome, psVars, gpVars, exVars, func, arg, retries, raised, ret,
                   remoteVars, obsVars>>

\* ------------------------------- get_playlist_info_and_tracks and main

\* Lines 209-214: the uris of a page's items, in order; an item without a
\* track or without a uri is passed over.
RECURSIVE KeepUris(_)
KeepUris(items) ==
    IF items = <<>> THEN <<>>
    ELSE IF Head(items) # 0 THEN <<Head(items)>> \o KeepUris(Tail(items))
    ELSE KeepUris(Tail(items))

\* What was collected is thrown away.
Collected_Discarded(tr) == <<>>

\* Lines 208 and 220: when `results` is None the loop ends and the tracks
\* collected so far are returned.
Collected(tr) == tr

\* Lines 193-198: the empty results and the metadata request.
LoadPlaylist ==
    /\ pc = "gp_start"
    /\ tracks' = <<>>
    /\ playlist_info' = "empty"
    /\ Call("playlist", 0, "gp_meta")
    /\ UNCHANGED <<sysVars, outcome, mode, psLocals, exVars, remoteVars, runObs>>

\* Lines 222-224: any exception gives {}, [].
LoadFailed ==
    /\ outcome' = "load_failed"
    /\ playlist_info' = "empty"
    /\ tracks' = <<>>
    /\ pc' = "main_loaded"
    /\ UNCHANGED <<rlVars, calls, invoked, lastFailure>>

\* Lines 199-207: the metadata when it arrived, then the first page request.
AfterMetadata ==
    /\ pc = "gp_meta"
    /\ IF raised
       THEN LoadFailed
       ELSE /\ playlist_info' = IF result.none THEN "empty" ELSE "loaded"
            /\ Call("playlist_items", 0, "gp_page")
            /\ UNCHANGED <<outcome, tracks>>
    /\ UNCHANGED <<sysVars, mode, psLocals, exVars, remoteVars, runObs>>

\* Lines 208-220: one turn of `while results`, or the return when the page
\* request gave None.
AfterPage ==
    /\ pc = "gp_page"
    /\ IF raised
       THEN LoadFailed
       ELSE IF result.none
       THEN /\ tracks' = Collected(tracks)
            /\ pc' = "main_loaded"
            /\ UNCHANGED <<outcome, playlist_info, rlVars, calls, invoked, lastFailure>>
       ELSE /\ tracks' = tracks \o KeepUris(result.val.items)
            /\ IF result.val.next # 0
               THEN Call("next", result.val.next, "gp_page")
               ELSE /\ pc' = "main_loaded"
                    /\ UNCHANGED <<rlVars, calls, invoked, lastFailure>>
            /\ UNCHANGED <<outcome, playlist_info>>
    /\ UNCHANGED <<sysVars, mode, psLocals, exVars, remoteVars, runObs>>

\* process_songs called whatever was loaded.
MainLoaded_Unguarded ==
    /\ pc = "main_loaded"
    /\ pc' = "ps_start"
    /\ UNCHANGED <<outcome, sysVars, psVars, rlVars, gpVars, exVars, remoteVars, obsVars>>

\* Lines 519-532 of main: no tracks, back to the dashboard; otherwise the
\* preview and process_songs.
MainLoaded ==
    /\ pc = "main_loaded"
    /\ IF tracks = <<>>
       THEN /\ outcome' = "no_tracks_loaded"
            /\ pc' = "dashboard"
       ELSE /\ pc' = "ps_start"
            /\ UNCHANGED outcome
    /\ UNCHANGED <<sysVars, psVars, rlVars, gpVars, exVars, remoteVars, obsVars>>

\* -------------------------------------------- create_playlist_from_liked

Min(a, b) == IF a < b THEN a ELSE b
Max(a, b) == IF a > b THEN a ELSE b

\* Lines 371-376: Prompt.ask with default "100"; "all" in any case, or a
\* text int() rejects, gives None; anything else its integer value.
ParseLimit(answer) ==
    CASE answer.kind = "default" -> [none |-> FALSE, n |-> DEFAULT_LIMIT]
      [] answer.kind = "int" -> [none |-> FALSE, n |-> answer.n]
      [] OTHER -> NoLimit

\* Python's truth value of `limit`: None and 0 are false.
Truthy(lim) == ~lim.none /\ lim.n # 0

\* limit or 50 (line 382)
PageSizeArg(lim) == IF Truthy(lim) THEN lim.n ELSE DEFAULT_PAGE

\* limit is None or len(liked) < limit (line 388)
WantsMore(lim, l) == lim.none \/ Len(l) < lim.n

\* l[:n], also for a negative n.
SliceTo(l, n) ==
    IF n >= 0 THEN SubSeq(l, 1, Min(n, Len(l))) ELSE SubSeq(l, 1, Max(0, Len(l) + n))

\* Lines 393-394.
Truncate(lim, l) == IF Truthy(lim) /\ Len(l) > lim.n THEN SliceTo(l, lim.n) ELSE l

\* A slice one element too long.
Batch_Overlapping(l, off) == SubSeq(l, off + 1, Min(off + BATCH + 1, Len(l)))

\* liked[i:i+100] (line 422)
Batch(l, off) == SubSeq(l, off + 1, Min(off + BATCH, Len(l)))

\* Lines 429-430: the handler of the export's try.
ExportError ==
    /\ outcome' = "export_error"
    /\ pc' = "dashboard"

\* Lines 370-382: the limit and the first page request.
ExportStart ==
    /\ pc = "ex_start"
    /\ limit' = ParseLimit(limit_str)
    /\ liked' = <<>>
    /\ Call("saved_tracks", PageSizeArg(ParseLimit(limit_str)), "ex_page")
    /\ UNCHANGED <<sysVars, outcome, psVars, gpVars, limit_str, playlist, offset, remoteVars,
                   runObs>>

\* Lines 383-396: one turn of `while results`, or its end, then the cut to
\* the limit.
ExportAfterPage ==
    /\ pc = "ex_page"
    /\ IF raised
       THEN /\ ExportError
            /\ UNCHANGED <<liked, rlVars, calls, invoked, lastFailure>>
       ELSE IF result.none
       THEN /\ liked' = Truncate(limit, liked)
            /\ pc' = "ex_confirm"
            /\ UNCHANGED <<outcome, rlVars, calls, invoked, lastFailure>>
       ELSE IF result.val.next # 0
               /\ WantsMore(limit, liked \o KeepUris(result.val.items))
       THEN /\ liked' = liked \o KeepUris(result.val.items)
            /\ Call("next", result.val.next, "ex_page")
            /\ UNCHANGED outcome
       ELSE /\ liked' = Truncate(limit, liked \o KeepUris(result.val.items))
            /\ pc' = "ex_confirm"
            /\ UNCHANGED <<outcome, rlVars, calls, invoked, lastFailure>>
    /\ UNCHANGED <<sysVars, psVars, gpVars, limit_str, limit, playlist, offset, remoteVars,
                   runObs>>

\* The answer to the confirmation not looked at.
Proceeds_Always(answer) == TRUE

\* Lines 301 and 398: `if not Confirm.ask(...)` returns; the operation goes
\* on only with a yes.
Proceeds(answer) == answer

\* Lines 398-400: the confirmation.
ExportConfirm ==
    /\ pc = "ex_confirm"
    /\ \E answer \in BOOLEAN :
         /\ confirmed' = answer
         /\ IF ~Proceeds(answer)
            THEN /\ outcome' = "cancelled"
                 /\ pc' = "dashboard"
            ELSE /\ pc' = "ex_user"
                 /\ UNCHANGED outcome
    /\ UNCHANGED <<sysVars, psVars, rlVars, gpVars, exVars, remoteVars, library0, served,
                   batches, speed_input, faulted, found, asked, errors, progress,
                   paces, visited, calls, invoked, lastFailure, lastSleep, prev, checked, mutations>>

\* Lines 402-409: sp.current_user(), called outside the wrapper, then the
\* create-playlist request.
ExportUser ==
    /\ pc = "ex_user"
    /\ \E ok \in BOOLEAN :
         IF ok
         THEN /\ Call("create", 0, "ex_created")
              /\ UNCHANGED <<outcome, faulted>>
         ELSE /\ ExportError
              /\ faulted' = TRUE
              /\ UNCHANGED <<rlVars, calls, invoked, lastFailure>>
    /\ UNCHANGED <<sysVars, psVars, gpVars, exVars, remoteVars, library0, served, batches,
                   speed_input, found, asked, confirmed, errors, progress, paces,
                   visited, lastSleep, prev, checked, mutations>>

\* Lines 403-419: `playlist` is whatever the wrapper returned.
ExportAfterCreate ==
    /\ pc = "ex_created"
    /\ IF raised
       THEN /\ ExportError
            /\ UNCHANGED <<playlist, offset>>
       ELSE /\ playlist' = result
            /\ offset' = 0
            /\ pc' = "ex_upload"
            /\ UNCHANGED outcome
    /\ UNCHANGED <<sysVars, psVars, rlVars, gpVars, limit_str, limit, liked, remoteVars,
                   obsVars>>

\* Lines 421-423: the next batch and its add-items request; playlist["id"]
\* raises when `playlist` is None.  Lines 426-427 when the range is used up:
\* "Success!", then the link, which raises when `playlist` is None.
ExportNextBatch ==
    /\ pc = "ex_upload"
    /\ IF offset < Len(liked)
       THEN IF playlist.none
            THEN /\ ExportError
                 /\ UNCHANGED <<rlVars, calls, invoked, lastFailure, batches>>
            ELSE /\ batches' = Append(batches, Batch(liked, offset))
                 /\ Call("add_items", Batch(liked, offset), "ex_added")
                 /\ UNCHANGED outcome
       ELSE /\ outcome' = IF playlist.none THEN "success_then_error" ELSE "success_link"
            /\ pc' = "dashboard"
            /\ UNCHANGED <<rlVars, calls, invoked, lastFailure, batches>>
    /\ UNCHANGED <<sysVars, psVars, gpVars, exVars, remoteVars, library0, served, speed_input,
                   faulted, found, asked, confirmed, errors, progress, paces, visited,
                   lastSleep, prev, checked, mutations>>

\* A batch the wrapper gave up on taken as the end of the export.
BatchAborts_OnNone(res, exc) == exc \/ res.none

\* Lines 421-424: the wrapper's return value is not looked at; only an
\* exception leaves the loop, for the handler of line 429.
BatchAborts(res, exc) == exc

\* Line 424 and the step of the range.
ExportAfterBatch ==
    /\ pc = "ex_added"
    /\ IF BatchAborts(result, raised)
       THEN /\ ExportError
            /\ UNCHANGED <<offset, progress>>
       ELSE /\ progress' = progress + Len(arg)
            /\ offset' = offset + BATCH
            /\ pc' = "ex_upload"
            /\ UNCHANGED outcome
    /\ UNCHANGED <<sysVars, psVars, rlVars, gpVars, limit_str, limit, liked, playlist,
                   remoteVars, library0, served, batches, speed_input, faulted, found,
                   asked, confirmed, errors, paces, visited, calls, invoked, lastFailure, lastSleep, prev,
                   checked, mutations>>

\* ------------------------------------------------------- process_songs

SpeedInputs == {"", "1", "2", "3", "4"}

\* Prompt.ask(..., default="2"): an empty answer is the default.
SpeedChoice(input) == IF input = "" THEN "2" ELSE input

SpeedName(choice) ==
    CASE choice = "1" -> "fast"
      [] choice = "2" -> "balanced"
      [] choice = "3" -> "accurate"

\* The threshold itself taken as large.
SafetyForced_Inclusive(n) == n >= SAFE_THRESHOLD

\* if total > SAFE_THRESHOLD (line 269)
SafetyForced(n) == n > SAFE_THRESHOLD

\* Line 289: the delay of the chosen speed.
DelayOf(choice) == SPEED_MODES[SpeedName(choice)]

\* Lines 262-289: the empty list, the safety threshold, the speed prompt.
ChooseSpeed ==
    /\ pc = "ps_start"
    /\ total' = Len(tracks)
    /\ IF Len(tracks) = 0
       THEN /\ outcome' = "no_tracks_to_process"
            /\ pc' = "ps_return"
            /\ UNCHANGED <<speed_choice, effective_delay, asked, speed_input>>
       ELSE IF SafetyForced(Len(tracks))
       THEN /\ effective_delay' = SLOW_THRESHOLD_DELAY
            /\ pc' = "ps_confirm"
            /\ UNCHANGED <<outcome, speed_choice, asked, speed_input>>
       ELSE /\ asked' = TRUE
            /\ \E input \in SpeedInputs :
                 /\ speed_input' = input
                 /\ speed_choice' = SpeedChoice(input)
                 /\ IF SpeedChoice(input) = "4"
                    THEN /\ outcome' = "back"
                         /\ pc' = "ps_return"
                         /\ UNCHANGED effective_delay
                    ELSE /\ effective_delay' = DelayOf(SpeedChoice(input))
                         /\ pc' = "ps_confirm"
                         /\ UNCHANGED outcome
    /\ UNCHANGED <<sysVars, mode, tracks, i, uri, is_liked, skipped, processed, rlVars,
                   gpVars, exVars, remoteVars, served, batches, library0, faulted,
                   found, confirmed, errors, progress, paces, visited, calls, invoked, lastFailure,
                   lastSleep, prev, checked, mutations>>

\* Lines 291-309: the summary, the confirmation, the counters.
ConfirmRun ==
    /\ pc = "ps_confirm"
    /\ \E answer \in BOOLEAN :
         /\ confirmed' = answer
         /\ IF ~Proceeds(answer)
            THEN /\ outcome' = "cancelled"
                 /\ pc' = "ps_return"
                 /\ UNCHANGED <<skipped, processed>>
            ELSE /\ skipped' = 0
                 /\ processed' = 0
                 /\ pc' = "ps_loop"
                 /\ UNCHANGED outcome
    /\ UNCHANGED <<sysVars, mode, tracks, total, speed_choice, effective_delay, i, uri,
                   is_liked, rlVars, gpVars, exVars, remoteVars, served, batches,
                   library0, speed_input, faulted, found, asked, errors, progress,
                   paces, visited, calls, invoked, lastFailure, lastSleep, prev, checked, mutations>>

\* Line 321-327/336: the next track of the reversed list and its membership
\* check, or lines 358-360 when the list is exhausted.
NextTrack ==
    /\ pc = "ps_loop"
    /\ IF i < Len(VisitOrder(tracks))
       THEN /\ i' = i + 1
            /\ uri' = VisitOrder(tracks)[i + 1]
            /\ visited' = Append(visited, VisitOrder(Positions(tracks))[i + 1])
            /\ Call("contains", VisitOrder(tracks)[i + 1], "ps_checked")
            /\ UNCHANGED outcome
       ELSE /\ outcome' = "completed"
            /\ pc' = "ps_return"
            /\ UNCHANGED <<i, uri, visited, rlVars, calls, invoked, lastFailure>>
    /\ UNCHANGED <<sysVars, mode, tracks, total, speed_choice, effective_delay, is_liked,
                   skipped, processed, gpVars, exVars, remoteVars, served, batches,
                   library0, speed_input, faulted, found, asked, confirmed, errors,
                   progress, paces, lastSleep, prev, checked, mutations>>

\* The pacing sleep skipped after an error.
TrackError_Unpaced ==
    /\ errors' = errors + 1
    /\ \E j \in Uniform(200) : lastSleep' = [kind |-> "recover", secs |-> 300 + j]
    /\ pc' = "ps_loop"
    /\ UNCHANGED <<skipped, processed, progress>>

\* The handler ends the run.
TrackError_Aborts ==
    /\ errors' = errors + 1
    /\ \E j \in Uniform(200) : lastSleep' = [kind |-> "recover", secs |-> 300 + j]
    /\ pc' = "ps_return"
    /\ UNCHANGED <<skipped, processed, progress>>

\* Lines 352-354: the handler of the per-track try.
TrackError ==
    /\ errors' = errors + 1
    /\ \E j \in Uniform(200) : lastSleep' = [kind |-> "recover", secs |-> 300 + j]
    /\ pc' = "ps_pace"
    /\ UNCHANGED <<skipped, processed, progress>>

\* The answer of the check ignored.
MutationFor_Unchecked(m, answer) == IF m = "add" THEN "add" ELSE "delete"

\* The mode ignored: every run treated as an Add run.
MutationFor_ModeBlind(m, answer) == IF answer THEN "skip" ELSE "add"

\* Lines 328-343: with the answer of the check, mutate or skip.
MutationFor(m, answer) ==
    CASE m = "add" /\ ~answer -> "add"
      [] m = "remove" /\ answer -> "delete"
      [] OTHER -> "skip"

\* Lines 327-330 and 336-343: [0] of the check's result, then the branch.
AfterCheck ==
    /\ pc = "ps_checked"
    /\ IF raised \/ result.none
       THEN /\ TrackError
            /\ UNCHANGED <<is_liked, rlVars, calls, invoked, lastFailure>>
       ELSE /\ is_liked' = result.val[1]
            /\ IF MutationFor(mode, result.val[1]) = "skip"
               THEN /\ skipped' = skipped + 1
                    /\ progress' = progress + 1
                    /\ pc' = "ps_pace"
                    /\ UNCHANGED <<processed, errors, lastSleep, rlVars, calls, invoked, lastFailure>>
               ELSE /\ Call(MutationFor(mode, result.val[1]), uri, "ps_mutated")
                    /\ UNCHANGED <<skipped, processed, progress, errors, lastSleep>>
    /\ UNCHANGED <<sysVars, outcome, mode, tracks, total, speed_choice, effective_delay, i,
                   uri, gpVars, exVars, remoteVars, served, batches, library0,
                   speed_input, faulted, found, asked, confirmed, paces, visited,
                   prev, checked, mutations>>

\* progress.update(task, advance=1) left out after a mutation.
CountMutation_NoAdvance ==
    /\ processed' = processed + 1
    /\ pc' = "ps_pace"
    /\ UNCHANGED <<progress, skipped, errors, lastSleep>>

\* processed += 1 left out.
CountMutation_Forgets ==
    /\ progress' = progress + 1
    /\ pc' = "ps_pace"
    /\ UNCHANGED <<processed, skipped, errors, lastSleep>>

\* Lines 332-334 and 338-340: the wrapper's return value is not looked at.
CountMutation ==
    /\ processed' = processed + 1
    /\ progress' = progress + 1
    /\ pc' = "ps_pace"
    /\ UNCHANGED <<skipped, errors, lastSleep>>

AfterMutation ==
    /\ pc = "ps_mutated"
    /\ IF raised THEN TrackError ELSE CountMutation
    /\ UNCHANGED <<sysVars, outcome, mode, tracks, total, speed_choice, effective_delay, i,
                   uri, is_liked, rlVars, gpVars, exVars, remoteVars, served,
                   batches, library0, speed_input, faulted, found, asked,
                   confirmed, paces, visited, calls, invoked, lastFailure, prev, checked, mutations>>

\* Line 356: the pacing sleep that ends every turn of the loop.
Pace ==
    /\ pc = "ps_pace"
    /\ paces' = paces + 1
    /\ \E j \in Uniform(15) : lastSleep' = [kind |-> "pace", secs |-> effective_delay + j]
    /\ pc' = "ps_loop"
    /\ UNCHANGED <<sysVars, outcome, psVars, rlVars, gpVars, exVars, remoteVars, served,
                   batches, library0, speed_input, faulted, found, asked,
                   confirmed, errors, progress, visited, calls, invoked, lastFailure, prev, checked,
                   mutations>>

\* ------------------------------------------- credentials and the cache

\* What is typed at a prompt: a text of letters and blanks.
MaxText == 2
Chars == {"a", "b", " "}
Texts == UNION { [1..n -> Chars] : n \in 0..MaxText }

\* str.strip(): the text without its leading and trailing blanks.
RECURSIVE StripLeft(_)
StripLeft(s) == IF s # <<>> /\ Head(s) = " " THEN StripLeft(Tail(s)) ELSE s

Strip(s) == Reverse(StripLeft(Reverse(StripLeft(s))))

\* Prompt.ask: nothing typed gives the default.
PromptAsk(typed, default) == IF typed = <<>> THEN default ELSE typed

\* `current_id or ""`
OrEmpty(v) == IF v.none THEN <<>> ELSE v.val

\* The text written as it was typed.
SetKey_Raw(values, key, text) ==
    IF text # <<>> THEN [values EXCEPT ![key] = Value(text)] ELSE values

\* Lines 72-75: `if new_x: set_key(ENV_FILE, KEY, new_x.strip())`.
SetKey(values, key, text) ==
    IF text # <<>> THEN [values EXCEPT ![key] = Value(Strip(text))] ELSE values

\* What os.getenv can return for a key: nothing, or a text without blanks
\* around it.
Stored == {None} \cup { Value(s) : s \in { x \in Texts : Strip(x) = x } }

\* Lines 59-79: the two prompts, the writes to .env (set_key creates the
\* file), "Credentials updated!", then clear_cache.  The default of the
\* Client ID prompt comes from the process environment.
ChangeCredentials ==
    /\ pc = "cc_start"
    /\ \E id \in { PromptAsk(typed_id, OrEmpty(current_id)) :
                        typed_id \in Texts, current_id \in Stored },
          typed_secret \in Texts :
         /\ new_id' = id
         /\ new_secret' = typed_secret
         /\ env_values' = SetKey(SetKey(env_values, "id", id), "secret", typed_secret)
         /\ env_file' = IF id # <<>> \/ typed_secret # <<>> THEN "saved" ELSE env_file
    /\ outcome' = "credentials_updated"
    /\ pc' = "cl_confirm"
    /\ UNCHANGED <<interrupted, token_cache, sure, files0, psVars, rlVars, gpVars,
                   exVars, remoteVars, obsVars>>

\* Lines 82-114: the confirmation; declined, "Cancelled." and nothing
\* else; confirmed, the cache and .env are removed where they exist.
ClearCache ==
    /\ pc = "cl_confirm"
    /\ \E answer \in BOOLEAN :
         IF ~answer
         THEN /\ sure' = "no"
              /\ outcome' = "cancelled"
              /\ UNCHANGED <<env_file, env_values, token_cache>>
         ELSE /\ sure' = "yes"
              /\ token_cache' = "absent"
              /\ env_file' = "absent"
              /\ env_values' = NoValues
              /\ outcome' = IF token_cache = "saved" \/ env_file = "saved"
                            THEN "removed" ELSE "nothing_to_delete"
    /\ pc' = "dashboard"
    /\ UNCHANGED <<interrupted, new_id, new_secret, files0, psVars, rlVars, gpVars,
                   exVars, remoteVars, obsVars>>

\* ------------------------------------------------------------ interrupts

\* `except Exception` written as a bare `except:`.
Catches_Everything(clause, e) == clause = "Exception" \/ clause = e

\* Which exceptions an except clause handles: `except Exception` takes every
\* exception of the program but KeyboardInterrupt, which derives from
\* BaseException; any other clause takes its own class.
Catches(clause, e) ==
    IF clause = "Exception" THEN e # "KeyboardInterrupt" ELSE clause = e

\* Lines 325-351: inside the try of the loop body.
InTrackTry ==
    \/ pc \in {"ps_checked", "ps_mutated"}
    \/ pc = "rlr" /\ ret \in {"ps_checked", "ps_mutated"}

\* Lines 380-428: inside the try of the export.
InExportTry ==
    \/ pc \in {"ex_page", "ex_confirm", "ex_user", "ex_created", "ex_upload", "ex_added"}
    \/ pc = "rlr" /\ ret \in {"ex_page", "ex_created", "ex_added"}

\* Ctrl-C: KeyboardInterrupt is raised at the point the program is at, in a
\* remote call, a sleep or a prompt.  It passes `except SpotifyException`
\* (line 164) and the handlers of lines 352 and 429, and is caught by
\* lines 541-542, which print "Stopped by user" and let the process end.
Interrupt ==
    /\ pc # "stopped"
    /\ interrupted' = TRUE
    /\ IF InTrackTry /\ Catches("Exception", "KeyboardInterrupt")
       THEN /\ TrackError
            /\ UNCHANGED outcome
       ELSE IF InExportTry /\ Catches("Exception", "KeyboardInterrupt")
       THEN /\ ExportError
            /\ UNCHANGED <<errors, lastSleep, skipped, processed, progress>>
       ELSE /\ outcome' = "stopped_by_user"
            /\ pc' = "stopped"
            /\ UNCHANGED <<errors, lastSleep, skipped, processed, progress>>
    /\ UNCHANGED <<env_file, token_cache, credVars, mode, tracks, total, speed_choice,
                   effective_delay, i, uri, is_liked, rlVars, gpVars, exVars,
                   remoteVars, library0, served, batches, speed_input, faulted,
                   found, asked, confirmed, paces, visited, calls, invoked,
                   lastFailure, prev, checked, mutations>>

\* ------------------------------------------------------ specifications

\* Answers to the limit prompt: "all", a text that is no number, nothing
\* (the default), an integer.
AllSongs == [kind |-> "all", n |-> 0]
NotANumber == [kind |-> "text", n |-> 0]
DefaultAnswer == [kind |-> "default", n |-> 0]
Number(k) == [kind |-> "int", n |-> k]

Program(p, m, t, lib, pg, ls, f, a, r) ==
    /\ pc = p
    /\ outcome = "none"
    /\ mode = m
    /\ tracks = t
    /\ total = 0
    /\ speed_choice = ""
    /\ effective_delay = -1
    /\ i = 0
    /\ uri = 0
    /\ is_liked = FALSE
    /\ skipped = 0
    /\ processed = 0
    /\ func = f
    /\ arg = a
    /\ retries = 0
    /\ result = None
    /\ raised = FALSE
    /\ ret = r
    /\ playlist_info = "empty"
    /\ limit_str = ls
    /\ limit = NoLimit
    /\ liked = <<>>
    /\ playlist = None
    /\ offset = 0
    /\ library = lib
    /\ pages = pg
    /\ created = 0
    /\ uploaded = <<>>
    /\ served = 0
    /\ batches = <<>>
    /\ library0 = lib
    /\ speed_input = ""
    /\ faulted = FALSE
    /\ found = <<>>
    /\ asked = FALSE
    /\ confirmed = FALSE
    /\ errors = 0
    /\ progress = 0
    /\ paces = 0
    /\ visited = <<>>
    /\ calls = 0
    /\ invoked = IF p = "rlr" THEN 1 ELSE 0
    /\ lastFailure = NoFailure
    /\ lastSleep = NoSleep
    /\ prev = NoCall
    /\ checked = NoCheck
    /\ mutations = <<>>
    /\ interrupted = FALSE
    /\ new_id = <<>>
    /\ new_secret = <<>>
    /\ sure = "unasked"

\* The files of the program: .env with its two keys, and the token cache.
Files(env, values, cache) ==
    /\ env_file = env
    /\ env_values = values
    /\ token_cache = cache
    /\ files0 = [env_file |-> env, env_values |-> values, token_cache |-> cache]

\* An operation that talks to the service starts with credentials saved
\* and a token cached (get_spotify_client, lines 117-149).
Start(p, m, t, lib, pg, ls, f, a, r) ==
    /\ Program(p, m, t, lib, pg, ls, f, a, r)
    /\ Files("saved", [id |-> Value(<<"a">>), secret |-> Value(<<"b">>)], "saved")

\* The track lists main hands to process_songs: not empty (main returns to
\* the dashboard on an empty list), a uri may occur twice.  A uri is new to
\* the list only if it is the next unused number, which names every list up
\* to a renaming of the uris.
UrisOf(t) == { t[k] : k \in DOMAIN t }

TrackLists ==
    UNION { { t \in [1..n -> Uris] :
                \A k \in 1..n : \/ t[k] = 1
                                 \/ \E h \in 1..(k - 1) : t[k] <= t[h] + 1 } :
            n \in 1..MaxTracks }

\* process_songs as main calls it (line 532).  Liked Songs holds any subset
\* of the playlist's uris; a uri outside the playlist plays no part.
InitSync ==
    \E m \in {"add", "remove"}, t \in TrackLists :
        \E lib \in SUBSET UrisOf(t) : Start("ps_start", m, t, lib, <<>>, AllSongs, "none", 0, "none")

NextSync ==
    \/ ChooseSpeed
    \/ ConfirmRun
    \/ NextTrack
    \/ RLR_Attempt
    \/ RLR_Exhaust
    \/ AfterCheck
    \/ AfterMutation
    \/ Pace

SpecSync == InitSync /\ [][NextSync]_vars

\* process_songs on a short track list.
MaxOpsTracks == 2

InitShort ==
    \E m \in {"add", "remove"}, t \in { s \in TrackLists : Len(s) <= MaxOpsTracks } :
        \E lib \in SUBSET UrisOf(t) :
            Start("ps_start", m, t, lib, <<>>, AllSongs, "none", 0, "none")

\* Runs of process_songs when the program is never stopped from outside:
\* every prompt is answered, every remote call returns or raises, every
\* sleep ends, so a step that can be taken is taken.
SpecSyncFair == InitShort /\ [][NextSync]_vars /\ WF_vars(NextSync)

\* The listings the remote service can hold: up to maxPages pages of up to
\* maxItems items; the item at position g of the listing is the uri g, or 0
\* when it has no track or no uri (at most MaxHoles of them).
RECURSIVE Sum(_)
Sum(lens) == IF lens = <<>> THEN 0 ELSE Head(lens) + Sum(Tail(lens))

BuildPages(lens, holes) ==
    [k \in 1..Len(lens) |->
        [j \in 1..lens[k] |->
            IF Sum(SubSeq(lens, 1, k - 1)) + j \in holes
            THEN 0
            ELSE Sum(SubSeq(lens, 1, k - 1)) + j]]

MaxPages == 2
MaxItems == 2
MaxHoles == 1

Listings(maxPages, maxItems) ==
    UNION { { BuildPages(lens, holes) :
                holes \in { h \in SUBSET (1..Sum(lens)) : Cardinality(h) <= MaxHoles } } :
            lens \in UNION { [1..n -> 0..maxItems] : n \in 1..maxPages } }

\* main from the loading of the playlist (line 519) to the call of
\* process_songs (line 532) or the return to the dashboard (line 524).
InitFetch ==
    \E m \in {"add", "remove"}, pg \in Listings(MaxPages, MaxItems) :
        Start("gp_start", m, <<>>, {}, pg, AllSongs, "none", 0, "none")

NextFetch ==
    \/ LoadPlaylist
    \/ RLR_Attempt
    \/ RLR_Exhaust
    \/ AfterMetadata
    \/ AfterPage
    \/ MainLoaded

SpecFetch == InitFetch /\ [][NextFetch]_vars

\* The Add/Remove choice of main from the loading of the playlist to the
\* answer to process_songs' confirmation (lines 519-303).
NextAddRemove ==
    \/ LoadPlaylist
    \/ RLR_Attempt
    \/ RLR_Exhaust
    \/ AfterMetadata
    \/ AfterPage
    \/ MainLoaded
    \/ ChooseSpeed
    \/ ConfirmRun

SpecAddRemove == InitFetch /\ [][NextAddRemove]_vars

\* A listing of n items in pages of ps; the first item has no uri when
\* `hole`.  An empty library is one empty page.
Chunks(n, ps, hole) ==
    BuildPages([k \in 1..Max(1, (n + ps - 1) \div ps) |-> Min(ps, n - (k - 1) * ps)],
               IF hole /\ n > 0 THEN {1} ELSE {})

MaxLiked == 3
MaxBatches == 2

\* Small libraries in small pages, against every small limit; libraries
\* around a multiple of the batch size in pages of 50, against limits that
\* end on a page boundary, inside a page, or at 0.
ExportCases ==
    { [pg |-> Chunks(n, ps, hole), ls |-> ls] :
        n \in 0..MaxLiked, ps \in 1..MaxItems, hole \in BOOLEAN,
        ls \in {AllSongs, NotANumber} \cup { Number(k) : k \in (-1)..MaxLiked } }
    \cup
    { [pg |-> Chunks(k * BATCH + d, DEFAULT_PAGE, FALSE), ls |-> ls] :
        k \in 1..MaxBatches, d \in {-1, 0, 1},
        ls \in {AllSongs, DefaultAnswer, Number(0), Number(BATCH + 1)} }

\* create_playlist_from_liked as main calls it (line 499).
InitExport ==
    \E c \in ExportCases : Start("ex_start", "add", <<>>, {}, c.pg, c.ls, "none", 0, "none")

NextExport ==
    \/ ExportStart
    \/ RLR_Attempt
    \/ RLR_Exhaust
    \/ ExportAfterPage
    \/ ExportConfirm
    \/ ExportUser
    \/ ExportAfterCreate
    \/ ExportNextBatch
    \/ ExportAfterBatch

SpecExport == InitExport /\ [][NextExport]_vars

\* One invocation of rate_limited_request, on any of the three operations
\* process_songs wraps.
InitRetry ==
    \E f \in {"contains", "add", "delete"}, a \in Uris, lib \in SUBSET Uris :
        Start("rlr", "add", <<>>, lib, <<>>, AllSongs, f, a, "returned")

NextRetry ==
    \/ RLR_Attempt
    \/ RLR_Exhaust

SpecRetry == InitRetry /\ [][NextRetry]_vars

\* The prompts of process_songs, lines 262-303, for track counts around the
\* safety threshold; the loop that follows a confirmation is SpecSync's.
PacingSpan == 2

PacingCounts ==
    (1..PacingSpan) \cup ((SAFE_THRESHOLD - PacingSpan)..(SAFE_THRESHOLD + PacingSpan))

InitPacing ==
    \E m \in {"add", "remove"}, n \in PacingCounts :
        Start("ps_start", m, [k \in 1..n |-> 1], {}, <<>>, AllSongs, "none", 0, "none")

NextPacing ==
    \/ ChooseSpeed
    \/ ConfirmRun

SpecPacing == InitPacing /\ [][NextPacing]_vars

\* The two operations of the dashboard that change remote state, each as
\* main calls it: process_songs on a short track list, or
\* create_playlist_from_liked; the user may press Ctrl-C at any point.
InitOps ==
    \/ InitShort
    \/ InitExport

NextOps ==
    \/ ChooseSpeed
    \/ ConfirmRun
    \/ NextTrack
    \/ RLR_Attempt
    \/ RLR_Exhaust
    \/ AfterCheck
    \/ AfterMutation
    \/ Pace
    \/ ExportStart
    \/ ExportAfterPage
    \/ ExportConfirm
    \/ ExportUser
    \/ ExportAfterCreate
    \/ ExportNextBatch
    \/ ExportAfterBatch
    \/ Interrupt

SpecOps == InitOps /\ [][NextOps]_vars

\* "Change credentials" (line 488) or "Clear cache" (line 483) chosen at
\* the dashboard, with .env and the token cache there or not.
\* A key of .env at the start: missing, empty, or set.
Saved == {None, Value(<<>>), Value(<<"b">>)}

InitCreds ==
    \E p \in {"cc_start", "cl_confirm"}, cache \in {"saved", "absent"} :
        /\ Program(p, "add", <<>>, {}, <<>>, AllSongs, "none", 0, "none")
        /\ \/ Files("absent", NoValues, cache)
           \/ \E id \in Saved, secret \in Saved :
                  Files("saved", [id |-> id, secret |-> secret], cache)

NextCreds ==
    \/ ChangeCredentials
    \/ ClearCache

SpecCreds == InitCreds /\ [][NextCreds]_vars

\* ------------------------------------------------------------- claims

\* The loop of process_songs is between two tracks, or has ended.
BetweenTracks == pc \in {"ps_loop", "ps_return"} /\ confirmed

RunCompleted == pc = "ps_return" /\ outcome = "completed"

\* The number of k with s[k] = v.
Count(s, v) == Cardinality({k \in DOMAIN s : s[k] = v})

\* C1: a track whose mutating call failed terminally is counted neither as
\* processed nor as skipped: processed counts exactly the tracks whose
\* mutating call succeeded.
C1_ProcessedOnlyOnSuccess ==
    BetweenTracks => processed = Len(mutations)

\* C2: between two tracks the three groups account for every visited track,
\* and a completed run over N tracks ends with processed + skipped + errors = N.
C2_EveryTrackAccounted ==
    /\ BetweenTracks => processed + skipped + errors = i
    /\ pc \in {"rlr", "ps_checked", "ps_mutated"} /\ confirmed
          => processed + skipped + errors = i - 1
    /\ RunCompleted => processed + skipped + errors = Len(tracks)

C2_Witness ==
    RunCompleted /\ processed = 1 /\ skipped = 1 /\ errors = 1

\* C3: the k-th visit is to input position N - k + 1, the track handled is
\* the one at that position, a completed run has made exactly N visits, and
\* while a track's remote calls run every earlier track has been handled and
\* paced.
C3_ReversedOrder ==
    /\ Len(visited) = i
    /\ \A k \in 1..Len(visited) : visited[k] = Len(tracks) - k + 1
    /\ i > 0 => uri = tracks[Len(tracks) - i + 1]
    /\ RunCompleted => Len(visited) = Len(tracks)
    /\ pc = "rlr" => paces = i - 1 /\ processed + skipped + errors = i - 1

C3_Witness ==
    RunCompleted /\ visited = <<3, 2, 1>> /\ errors = 1 /\ skipped = 1

\* C4: whenever a mutating call is about to be issued, the last successful
\* membership check was made for this very visit and uri and gave the answer
\* the mode requires, and the previous remote call was that check or a failed
\* attempt of this same mutation.
C4_CheckedBeforeMutation ==
    (pc = "rlr" /\ func \in MUTATING) =>
        /\ func = (IF mode = "add" THEN "add" ELSE "delete")
        /\ arg = uri
        /\ checked = [at |-> i, uri |-> uri, liked |-> (mode = "remove")]
        /\ \/ prev = [func |-> "contains", arg |-> uri, ok |-> TRUE]
           \/ prev = [func |-> func, arg |-> uri, ok |-> FALSE]

C4_Witness ==
    /\ pc = "rlr" /\ func = "delete" /\ calls = 1 /\ i = 2
    /\ tracks[1] = tracks[2]

\* C5: one invocation calls the wrapped operation at most MAX_RETRIES times;
\* when every call failed with an API error it has made exactly MAX_RETRIES
\* calls when it returns, and returns the failure value; no call follows a
\* successful one.
C5_AtMostMaxRetries ==
    /\ calls <= 5
    /\ (pc = "returned" /\ retries = calls) => result.none /\ calls = 5
    /\ (pc = "returned" /\ result.none /\ ~raised) => retries = 5 /\ calls = 5
    /\ (pc = "returned" /\ ~result.none) => prev.ok /\ calls = retries + 1
    /\ (pc = "rlr" /\ calls > 0) => ~prev.ok

C5_Witness ==
    pc = "returned" /\ result.none /\ calls = 5 /\ lastSleep.kind = "error"

\* C9: above 1000 tracks the delay is 1.2 s and no speed is asked for; from
\* 1 to 1000 tracks it is 0.35, 0.6 or 1.5 s for Fast, Balanced, Accurate,
\* and 0.6 s when the prompt is answered with nothing.
C9_DelayTable ==
    effective_delay # -1 =>
        /\ Len(tracks) > 1000 => effective_delay = 120 /\ ~asked /\ speed_input = ""
        /\ Len(tracks) <= 1000 =>
              /\ asked
              /\ speed_input = "1" => effective_delay = 35
              /\ speed_input = "2" => effective_delay = 60
              /\ speed_input = "3" => effective_delay = 150
              /\ speed_input = "" => effective_delay = 60

\* The items of pages 1..k, in page order.
RECURSIVE ItemsOf(_, _)
ItemsOf(pgs, k) == IF k = 0 THEN <<>> ELSE ItemsOf(pgs, k - 1) \o pgs[k]

HasUri(item) == item # 0

\* Every uri of the listing, in fetch order.
AllUris == SelectSeq(ItemsOf(pages, Len(pages)), HasUri)

\* The user entered an integer that can be a number of songs.
IntegerLimit == ~limit.none /\ limit.n >= 0

\* C6: with an integer limit (0 included), no further page is requested
\* once the count has reached the limit, the fetched list has at most
\* `limit` elements, and it is the first `limit` uris when that many are
\* there and arrived.
C6_BoundedFetch ==
    /\ (pc = "rlr" /\ func = "next" /\ IntegerLimit) => Len(liked) < limit.n
    /\ (pc = "ex_confirm" /\ IntegerLimit) =>
           /\ Len(liked) <= limit.n
           /\ (~faulted /\ Len(AllUris) >= limit.n) => liked = SubSeq(AllUris, 1, limit.n)

RECURSIVE Flatten(_)
Flatten(ss) == IF ss = <<>> THEN <<>> ELSE Head(ss) \o Flatten(Tail(ss))

\* C7: the batches handed to add-items are consecutive slices of the
\* collected list, each of 1 to 100 uris and each but the last of exactly
\* 100; none is handed over before the playlist exists; an export that
\* reaches its end has handed over the whole list in ceil(L/100) batches.
C7_BatchesOfHundred ==
    /\ \A k \in 1..Len(batches) : Len(batches[k]) >= 1 /\ Len(batches[k]) <= 100
    /\ \A k \in 1..(Len(batches) - 1) : Len(batches[k]) = 100
    /\ Flatten(batches) = SubSeq(liked, 1, Len(Flatten(batches)))
    /\ batches # <<>> => ~playlist.none /\ created = 1
    /\ (pc = "rlr" /\ func = "add_items") => arg = batches[Len(batches)]
    /\ outcome = "success_link" =>
           /\ Flatten(batches) = liked
           /\ Len(batches) = (Len(liked) + 99) \div 100

C7_Witness ==
    /\ outcome = "success_link"
    /\ Len(liked) = 201
    /\ Len(batches) = 3 /\ Len(batches[3]) = 1
    /\ Len(uploaded) = 101

\* A page request of the loader has failed terminally.
PageFailedTerminally ==
    func \in {"playlist_items", "next"} /\ result.none /\ ~raised /\ retries = 5

\* C8: when the requests for pages 1..k succeeded and the next one failed
\* terminally, the loader returns the uris of pages 1..k in page order, the
\* items without a uri left out; with k = 0 the list is empty, main prints
\* "No tracks loaded" and process_songs is not called.
C8_PartialListOnFailure ==
    /\ (pc = "main_loaded" /\ PageFailedTerminally) =>
           /\ served < Len(pages)
           /\ tracks = SelectSeq(ItemsOf(pages, served), HasUri)
           /\ served = 0 => tracks = <<>>
    /\ (pc = "dashboard" /\ PageFailedTerminally) =>
           /\ tracks = SelectSeq(ItemsOf(pages, served), HasUri)
           /\ tracks = <<>>
           /\ outcome = "no_tracks_loaded"
    /\ (pc = "ps_start" /\ PageFailedTerminally) =>
           /\ tracks = SelectSeq(ItemsOf(pages, served), HasUri)
           /\ tracks # <<>>
           /\ served > 0

C8_Witness ==
    /\ pc = "ps_start" /\ PageFailedTerminally
    /\ served = 1 /\ Len(pages) = 2
    /\ Len(tracks) = 1 /\ Len(ItemsOf(pages, 1)) = 2

C9_Witness ==
    Len(tracks) = 1000 /\ asked /\ effective_delay = 150 /\ confirmed

\* The mutating calls a run without failures makes: one per track found in
\* the state the mode acts on, in visit order.
RECURSIVE Expected(_, _, _)
Expected(order, answers, m) ==
    IF order = <<>> \/ answers = <<>> THEN <<>>
    ELSE IF Head(answers) = (m = "remove")
         THEN <<[func |-> IF m = "add" THEN "add" ELSE "delete", arg |-> Head(order)]>>
              \o Expected(Tail(order), Tail(answers), m)
         ELSE Expected(Tail(order), Tail(answers), m)

\* C10: in a completed run without a failed remote call every track was
\* checked; Add mode skips the tracks found liked and adds the others, and
\* every input uri is liked at the end; Remove mode is the mirror image.
\* Tracks A, B, C with only B liked: C and A added, B skipped.
C10_NoFailureRun ==
    (RunCompleted /\ ~faulted) =>
        /\ Len(found) = Len(tracks)
        /\ errors = 0
        /\ mutations = Expected(Reverse(tracks), found, mode)
        /\ mode = "add" =>
              /\ skipped = Count(found, TRUE)
              /\ processed = Count(found, FALSE)
              /\ UrisOf(tracks) \subseteq library
        /\ mode = "remove" =>
              /\ processed = Count(found, TRUE)
              /\ skipped = Count(found, FALSE)
              /\ UrisOf(tracks) \cap library = {}
        /\ (mode = "add" /\ tracks = <<1, 2, 3>> /\ library0 = {2}) =>
              /\ found = <<FALSE, TRUE, FALSE>>
              /\ mutations = <<[func |-> "add", arg |-> 3], [func |-> "add", arg |-> 1]>>
              /\ processed = 2
              /\ skipped = 1

C10_Witness ==
    /\ RunCompleted /\ ~faulted
    /\ mode = "add" /\ tracks = <<1, 2, 3>> /\ library0 = {2}
    /\ processed = 2 /\ skipped = 1

\* main has taken the loaded list past its `if not tracks` test.
PastLoading == pc \in {"dashboard", "ps_start", "ps_confirm", "ps_loop", "ps_return"}

\* C11: when the playlist loads with 0 tracks, the Add/Remove choice ends at
\* the dashboard with the "No tracks loaded." message: no speed prompt and no
\* confirmation was shown, no membership check and no add or remove call was
\* issued, and Liked Songs is as it was.
C11_EmptyPlaylistAborts ==
    (PastLoading /\ tracks = <<>>) =>
        /\ pc = "dashboard"
        /\ outcome = "no_tracks_loaded"
        /\ ~asked /\ ~confirmed /\ speed_input = ""
        /\ prev.func \notin {"contains"} \cup MUTATING
        /\ found = <<>> /\ mutations = <<>>
        /\ library = library0

\* A playlist whose metadata and pages all arrived and that holds no track
\* with a uri.
C11_Witness ==
    /\ pc = "dashboard"
    /\ outcome = "no_tracks_loaded"
    /\ playlist_info = "loaded"
    /\ served = Len(pages)
    /\ tracks = <<>>

\* The create-playlist request used up its retries: the wrapper returned None.
CreateFailedTerminally ==
    /\ func = "create"
    /\ retries = MAX_RETRIES
    /\ pc \in {"ex_created", "ex_upload", "dashboard"}

\* C12: when the create-playlist request fails terminally the export is
\* aborted: no add-items request is issued, whatever the number of collected
\* liked songs, and the export ends with the error message, not with
\* "Success!".
C12_CreateFailureAborts ==
    CreateFailedTerminally =>
        /\ batches = <<>>
        /\ uploaded = <<>>
        /\ pc = "dashboard" => outcome = "export_error"

\* C13: a terminal failure of an add-items request does not end the export.
\* Every batch up to the loop's offset was attempted; once a batch was
\* attempted only an exception leads to the error message; and without one
\* the export ends with the link after all batches were attempted in order,
\* whatever the service took.
C13_BatchFailureContinues ==
    /\ pc = "ex_upload" => Len(batches) = offset \div BATCH
    /\ (pc = "dashboard" /\ batches # <<>> /\ ~raised) =>
           /\ outcome = "success_link"
           /\ Flatten(batches) = liked
           /\ Len(uploaded) <= Len(liked)

\* Two batches: the first was given up after MAX_RETRIES failures, the second
\* was taken, and the link was reported.
C13_Witness ==
    /\ outcome = "success_link"
    /\ Len(batches) = 2
    /\ Len(liked) = 2 * BATCH
    /\ uploaded = batches[2]
    /\ ~raised

\* The remote calls that change state: save-tracks, remove-saved-tracks,
\* create-playlist, add-items-to-playlist.
MutatingRequests == MUTATING \cup {"create", "add_items"}

\* C14: a state-changing remote call is issued only after the user said yes
\* to the confirmation of the operation; an operation that was declined, or
\* left with "Back" at the speed prompt, has returned with no such call
\* issued, nothing changed at the service and the counters untouched.
C14_ConfirmedBeforeMutation ==
    /\ (pc = "rlr" /\ func \in MutatingRequests) => confirmed
    /\ prev.func \in MutatingRequests => confirmed
    /\ ~confirmed =>
           /\ mutations = <<>> /\ batches = <<>>
           /\ library = library0 /\ created = 0 /\ uploaded = <<>>
    /\ outcome \in {"cancelled", "back"} =>
           /\ ~confirmed
           /\ pc \in {"ps_return", "dashboard"}
           /\ processed = 0 /\ skipped = 0 /\ errors = 0 /\ progress = 0

\* The confirmation of process_songs was declined after a speed was chosen.
C14_Witness ==
    /\ outcome = "cancelled"
    /\ pc = "ps_return"
    /\ speed_choice \in {"1", "2", "3"}
    /\ library0 # {}
    /\ ~confirmed

\* The membership check used up its retries: the wrapper returned None, and
\* [0] of it raises inside the try.
CheckFailedTerminally ==
    pc = "ps_checked" /\ func = "contains" /\ result.none /\ ~raised

\* C15: a track whose membership check failed terminally ends as Failed: one
\* error is logged, the recovery sleep is taken, no mutation is attempted on
\* it, neither counter changes, and the loop goes on to the pacing sleep and
\* the next track.  The tracks visited are always the first ones of the
\* reversed list, and a confirmed run returns only after all were visited.
C15_FailedCheckSkipsTrack ==
    /\ [][CheckFailedTerminally =>
             /\ errors' = errors + 1
             /\ lastSleep'.kind = "recover"
             /\ processed' = processed /\ skipped' = skipped /\ progress' = progress
             /\ invoked' = invoked /\ mutations' = mutations /\ library' = library
             /\ pc' = "ps_pace"]_vars
    /\ [](confirmed =>
             /\ visited = SubSeq(Reverse(Positions(tracks)), 1, i)
             /\ pc = "ps_return" => (outcome = "completed" /\ i = Len(tracks)))

\* The first track visited was given up after MAX_RETRIES failed checks, the
\* pacing sleep was taken and the next track is about to be visited.
C15_Witness ==
    /\ pc = "ps_loop"
    /\ i = 1 /\ i < Len(tracks)
    /\ func = "contains" /\ retries = MAX_RETRIES /\ result.none /\ ~raised
    /\ errors = 1 /\ processed = 0 /\ skipped = 0
    /\ mutations = <<>>

\* C16: in a confirmed run the pacing sleep is taken once after the handling
\* of every visited track, whatever its fate: i - 1 sleeps while track i is
\* handled, i once it is done, N in a completed run.  It lasts the chosen
\* delay plus a jitter of at most 0.15 s, and it is the last sleep before
\* the first remote call of the next track.
C16_PacedOncePerTrack ==
    confirmed =>
        /\ pc \in {"rlr", "ps_checked", "ps_mutated", "ps_pace"} => paces = i - 1
        /\ pc \in {"ps_loop", "ps_return"} => paces = i
        /\ (pc = "ps_loop" /\ i > 0) =>
               /\ lastSleep.kind = "pace"
               /\ lastSleep.secs - effective_delay \in 0..15
        /\ (pc = "rlr" /\ func = "contains" /\ calls = 0 /\ i > 1) =>
               /\ lastSleep.kind = "pace"
               /\ lastSleep.secs - effective_delay \in 0..15
        /\ RunCompleted => paces = Len(tracks)

\* A completed run with a track of each fate: mutated, skipped and failed.
C16_Witness ==
    /\ RunCompleted
    /\ processed = 1 /\ skipped = 1 /\ errors = 1
    /\ paces = 3

C18_RunTerminates ==
    /\ confirmed ~> (RunCompleted /\ i = Len(tracks)
                        /\ processed + skipped + errors = Len(tracks))
    /\ [](confirmed => (calls <= 5 /\ invoked <= 2 * i /\ i <= Len(tracks)))

\* A completed run in which every call of every track failed: MAX_RETRIES
\* calls of the check per track, no track checked.
C18_Witness ==
    /\ RunCompleted
    /\ Len(tracks) = 2
    /\ errors = 2 /\ found = <<>>
    /\ invoked = 2 /\ calls = 5 /\ retries = 5

\* C19: an interrupt ends the process wherever it arrives: the program is
\* at "Stopped by user" from then on and takes no further step, so no remote
\* call follows.  The step that delivers it is no error recovery (no error
\* is logged, no recovery sleep taken), leaves what the remote service holds
\* as the run made it, and leaves .env and the token cache as they were.
C19_InterruptStops ==
    /\ [](interrupted => (pc = "stopped" /\ outcome = "stopped_by_user"))
    /\ [][~interrupted]_vars
    /\ [][interrupted' =>
             /\ errors' = errors /\ lastSleep' = lastSleep
             /\ calls' = calls /\ invoked' = invoked /\ prev' = prev
             /\ library' = library /\ created' = created /\ uploaded' = uploaded
             /\ mutations' = mutations /\ batches' = batches
             /\ processed' = processed /\ skipped' = skipped
             /\ env_file' = env_file /\ token_cache' = token_cache]_vars

\* Ctrl-C during the wrapper's backoff sleep of the second track's check,
\* after the first track was changed at the service: the change stays.
C19_Witness ==
    /\ pc = "stopped"
    /\ interrupted
    /\ func = "contains" /\ retries > 0 /\ i = 2
    /\ lastSleep.kind \in {"rate", "error"}
    /\ mutations # <<>> /\ library # library0
    /\ errors = 0

\* C20: the progress bar has advanced once for every track counted as
\* processed or skipped and not for a track whose handling raised: it stands
\* at processed + skipped, with the errors it makes up the tracks handled so
\* far, and a completed run has it at N exactly when no track failed.
C20_ProgressIsProcessedPlusSkipped ==
    confirmed =>
        /\ progress = processed + skipped
        /\ progress <= Len(tracks)
        /\ pc \in {"ps_pace", "ps_loop", "ps_return"} => progress + errors = i
        /\ pc \in {"rlr", "ps_checked", "ps_mutated"} => progress + errors = i - 1
        /\ RunCompleted => (progress = Len(tracks) <=> errors = 0)

\* A completed run of three tracks, two of them mutated and one failed: the
\* bar ends at 2 of 3.
C20_Witness ==
    /\ RunCompleted
    /\ Len(tracks) = 3
    /\ processed = 2 /\ skipped = 0 /\ errors = 1
    /\ progress = 2

\* What .env holds for a key after change_credentials: the text the prompt
\* returned, without blanks around it, or what it held when nothing was
\* entered.
Entered(key, text) == IF text # <<>> THEN Value(Strip(text)) ELSE files0.env_values[key]

\* C21: change_credentials writes what was entered and then always asks
\* clear_cache's confirmation.  Declined, .env holds the values entered and
\* the token cache is as it was; confirmed, the token cache and .env, with
\* the values just written, are gone.  clear_cache alone deletes nothing
\* when declined.
C21_ClearAfterCredentials ==
    /\ pc = "dashboard" => sure # "unasked"
    /\ sure = "unasked" =>
          /\ token_cache = files0.token_cache
          /\ pc = "cl_confirm" =>
                /\ env_values.id = Entered("id", new_id)
                /\ env_values.secret = Entered("secret", new_secret)
                /\ (new_id # <<>> \/ new_secret # <<>>) => env_file = "saved"
    /\ sure = "no" =>
          /\ token_cache = files0.token_cache
          /\ env_values.id = Entered("id", new_id)
          /\ env_values.secret = Entered("secret", new_secret)
          /\ env_file = IF new_id # <<>> \/ new_secret # <<>>
                        THEN "saved" ELSE files0.env_file
          /\ outcome = "cancelled"
    /\ sure = "yes" =>
          /\ token_cache = "absent"
          /\ env_file = "absent"
          /\ env_values = NoValues

\* Credentials entered with blanks around them where no .env was, the
\* confirmation declined: .env holds them and the token cache is kept.
C21_Witness ==
    /\ pc = "dashboard"
    /\ sure = "no"
    /\ files0.env_file = "absent" /\ files0.token_cache = "saved"
    /\ new_id = <<" ", "a">> /\ new_secret = <<"b", " ">>
    /\ env_file = "saved"
    /\ env_values = [id |-> Value(<<"a">>), secret |-> Value(<<"b">>)]
    /\ token_cache = "saved"

====
